---- MODULE Spec2Model ----
(***************************************************************************)
(* Investment tracker client: the session store (AuthProvider and          *)
(* usePersistentState), the route guard (PrivateRoute) and the two         *)
(* investment entry forms (NewInvestment, multi-allocation and single),    *)
(* the list view (Dashboard) and the row-level policies of the             *)
(* investments relation.                                                   *)
(***************************************************************************)
EXTENDS Integers, Sequences, FiniteSets, TLC

VARIABLES
    session,            \* AuthProvider: the persistent React state `session`
    user,               \* AuthProvider: the React state `user`
    storage,            \* localStorage entry under the key "session"
    persistPending,     \* usePersistentState: the write effect is scheduled, not yet run
    getSessionPending,  \* the promise of supabase.auth.getSession() has not resolved
    signOutPending,     \* Dashboard.handleSignOut awaits signOut()
    signOutCalled,      \* history: signOut() has been called
    eventAfterSignOut,  \* history: an event was delivered since the latest call of signOut()
    lastEvent,          \* history: payload of the auth-state-change event delivered last
    mounted,            \* AuthProvider is mounted
    subscribed,         \* the listener is registered with supabase.auth
    unheard,            \* history: payload of the event emitted last with no listener registered
    location,           \* router: the current path
    routed,             \* router: the path handed to <Routes> at the latest render
    variant,            \* which NewInvestment component is mounted: "multi" or "single"
    allocations,        \* multi form: the React state `allocations`
    removedAt,          \* history: position the latest edit of the drafts removed from a longer sequence (0: none)
    formData,           \* form: the React state `formData`
    loading,            \* form: the React state `loading`
    error,              \* form: the React state `error`
    requests,           \* create requests issued by the form, with their outcome
    awaiting,           \* the submission whose handleSubmit is suspended at its await (0: none)
    submits,            \* number of submissions that issued requests
    db,                 \* rows of the investments relation (ids of the requests that created them)
    investments,        \* Dashboard: the React state `investments`
    listLoading,        \* Dashboard: the React state `loading`
    listError,          \* Dashboard: the React state `error`
    fetchPending,       \* Dashboard: fetchInvestments awaits its select
    fetchCount,         \* history: number of selects fetchInvestments has issued
    deleteCalls,        \* Dashboard: the deleteInvestment calls suspended at their await
    deleteCount,        \* number of deleteInvestment calls made
    fetched,            \* history: the list the fetch returned
    deleteLog,          \* history: the deleteInvestment calls that returned, in that order
    table,              \* the investments relation as the list view and the policies see it
    reply               \* the latest request made to the relation and the rows it returned

authVars == <<session, user, storage, persistPending, getSessionPending,
              signOutPending, signOutCalled, eventAfterSignOut, lastEvent,
              mounted, subscribed, unheard>>
routeVars == <<location, routed>>
formVars == <<variant, allocations, removedAt, formData, loading, error, requests, awaiting,
              submits, db>>
listVars == <<investments, listLoading, listError, fetchPending, fetchCount, deleteCalls,
              deleteCount, fetched, deleteLog>>
serverVars == <<table, reply>>
vars == <<authVars, routeVars, formVars, listVars, serverVars>>

----------------------------------------------------------------------------
(* Values *)

NullSession == "null"
NoUser == "null"
NoEvent == "none"
NoItem == "absent"

Sessions == {"s1", "s2"}
Payloads == Sessions \cup {NullSession}

\* session.user
SessionUser(s) == IF s = "s1" THEN "u1" ELSE "u2"

\* session?.user ?? null
OptionalUserKeep(s) == IF s = NullSession THEN user ELSE SessionUser(s)
OptionalUser(s) == IF s = NullSession THEN NoUser ELSE SessionUser(s)

\* JSON.stringify(state)
Stringify(s) == IF s = NullSession THEN "null" ELSE "{\"session\":\"" \o s \o "\"}"

\* JSON.parse(storedValue)
Parse(text) == IF text = "null" THEN NullSession
               ELSE CHOOSE s \in Sessions : Stringify(s) = text

StoredValues == {NoItem} \cup {Stringify(s) : s \in Payloads}

\* usePersistentState: the lazy initializer of useState
RestoredState(storedValue, initialValue) ==
    IF storedValue = NoItem THEN initialValue ELSE Parse(storedValue)

----------------------------------------------------------------------------
(* Router *)

ProtectedPaths == {"/register", "/dashboard", "/new-investment"}
Paths == {"/", "/login"} \cup ProtectedPaths

\* function PrivateRoute: TRUE when it returns its children, FALSE when it
\* returns <Navigate to="/login" />
PrivateRouteAlways(s) == TRUE
PrivateRoute(s) == s # NullSession

\* <Routes>: the path the router settles on when asked to render `path`
Resolve(path, s) ==
    LET target == IF path = "/" THEN "/dashboard" ELSE path
    IN  IF target \in ProtectedPaths /\ ~PrivateRoute(s) THEN "/login" ELSE target

\* a render of <Routes> at `path` with the store's session `s`
Render(path, s) ==
    /\ routed' = path
    /\ location' = Resolve(path, s)

----------------------------------------------------------------------------
(* Session store: AuthProvider and usePersistentState *)

\* React runs a scheduled passive effect before it renders the next update:
\* the storage as it is once a still pending write effect has been flushed
FlushedStorage == IF persistPending THEN Stringify(session) ELSE storage

\* setSession(value) of usePersistentState: the state is replaced and, when
\* it changed, the write effect is scheduled again
SetSessionUnlessNull(value) ==
    /\ session' = IF value = NullSession THEN session ELSE value
    /\ storage' = FlushedStorage
    /\ persistPending' = (value # session)
SetSession(value) ==
    /\ session' = value
    /\ storage' = FlushedStorage
    /\ persistPending' = (value # session)

\* usePersistentState: useEffect(() => localStorage.setItem(key, JSON.stringify(state)))
PersistEffectSkippingNull ==
    /\ persistPending
    /\ storage' = IF session = NullSession THEN storage ELSE Stringify(session)
    /\ persistPending' = FALSE
    /\ UNCHANGED <<session, user, getSessionPending, signOutPending, signOutCalled,
                   eventAfterSignOut, lastEvent, mounted, subscribed, unheard,
                   routeVars, formVars, listVars, serverVars>>
PersistEffect ==
    /\ persistPending
    /\ storage' = Stringify(session)
    /\ persistPending' = FALSE
    /\ UNCHANGED <<session, user, getSessionPending, signOutPending, signOutCalled,
                   eventAfterSignOut, lastEvent, mounted, subscribed, unheard,
                   routeVars, formVars, listVars, serverVars>>

\* supabase.auth.getSession().then(({ data: { session } }) => ...)
GetSessionResolve(result) ==
    /\ getSessionPending
    /\ getSessionPending' = FALSE
    /\ SetSession(result)
    /\ user' = OptionalUser(result)
    /\ Render(location, result)
    /\ UNCHANGED <<signOutPending, signOutCalled, eventAfterSignOut, lastEvent,
                   mounted, subscribed, unheard,
                   formVars, listVars, serverVars>>

\* the listener given to supabase.auth.onAuthStateChange
AuthStateChange(payload) ==
    /\ subscribed
    /\ SetSession(payload)
    /\ user' = OptionalUser(payload)
    /\ lastEvent' = payload
    /\ eventAfterSignOut' = TRUE
    /\ Render(location, payload)
    /\ UNCHANGED <<getSessionPending, signOutPending, signOutCalled,
                   mounted, subscribed, unheard, formVars, listVars, serverVars>>

\* an auth-state-change event emitted while no listener is registered
AuthEventUnheard(payload) ==
    /\ ~subscribed
    /\ unheard' = payload
    /\ UNCHANGED <<session, user, storage, persistPending, getSessionPending,
                   signOutPending, signOutCalled, eventAfterSignOut, lastEvent,
                   mounted, subscribed, routeVars, formVars, listVars, serverVars>>

\* AuthProvider is unmounted: a write effect still pending is flushed and
\* the cleanup of the mount effect runs, () => subscription.unsubscribe()
TeardownKeepingListener ==
    /\ mounted
    /\ mounted' = FALSE
    /\ storage' = FlushedStorage
    /\ persistPending' = FALSE
    /\ UNCHANGED <<session, user, getSessionPending, signOutPending, signOutCalled,
                   eventAfterSignOut, lastEvent, subscribed, unheard,
                   routeVars, formVars, listVars, serverVars>>
Teardown ==
    /\ mounted
    /\ mounted' = FALSE
    /\ subscribed' = FALSE
    /\ storage' = FlushedStorage
    /\ persistPending' = FALSE
    /\ UNCHANGED <<session, user, getSessionPending, signOutPending, signOutCalled,
                   eventAfterSignOut, lastEvent, unheard,
                   routeVars, formVars, listVars, serverVars>>

\* getSession() resolves after the unmount: React drops the state updates of
\* a component that is no longer mounted
GetSessionResolveUnmounted ==
    /\ ~mounted
    /\ getSessionPending
    /\ getSessionPending' = FALSE
    /\ UNCHANGED <<session, user, storage, persistPending, signOutPending, signOutCalled,
                   eventAfterSignOut, lastEvent, mounted, subscribed, unheard,
                   routeVars, formVars, listVars, serverVars>>

\* Dashboard.handleSignOut up to its await: value.signOut() requests the
\* remote invalidation and touches no state of the store
HandleSignOutClearing ==
    /\ location = "/dashboard"
    /\ ~signOutPending
    /\ signOutPending' = TRUE
    /\ signOutCalled' = TRUE
    /\ eventAfterSignOut' = FALSE
    /\ SetSession(NullSession)
    /\ user' = NoUser
    /\ Render(location, NullSession)
    /\ UNCHANGED <<getSessionPending, lastEvent, mounted, subscribed, unheard,
                   formVars, listVars, serverVars>>
HandleSignOut ==
    /\ location = "/dashboard"
    /\ ~signOutPending
    /\ signOutPending' = TRUE
    /\ signOutCalled' = TRUE
    /\ eventAfterSignOut' = FALSE
    /\ UNCHANGED <<session, user, storage, persistPending, getSessionPending,
                   lastEvent, mounted, subscribed, unheard,
                   routeVars, formVars, listVars, serverVars>>

\* Dashboard.handleSignOut after its await: navigate("/login")
SignOutResolve ==
    /\ signOutPending
    /\ signOutPending' = FALSE
    /\ Render("/login", session)
    /\ UNCHANGED <<session, user, storage, persistPending, getSessionPending,
                   signOutCalled, eventAfterSignOut, lastEvent,
                   mounted, subscribed, unheard,
                   formVars, listVars, serverVars>>

\* the user follows a link or enters a URL
NavigateTo(path) ==
    /\ Render(path, session)
    /\ UNCHANGED <<authVars, formVars, listVars, serverVars>>

----------------------------------------------------------------------------
(* Entry forms: NewInvestment *)

NoError == "null"
Undefined == "undefined"

MaxAllocs == 2
MaxSubmits == 2
MaxDeletes == 2

\* a parsed number: not-a-number, or a value counted in hundredths
NaN == [nan |-> TRUE, val |-> 0]
Number(v) == [nan |-> FALSE, val |-> v]

DigitChars == {"0", "1", "2", "3", "4", "5", "6", "7", "8", "9"}
DigitValue(c) ==
    CASE c = "0" -> 0 [] c = "1" -> 1 [] c = "2" -> 2 [] c = "3" -> 3 [] c = "4" -> 4
      [] c = "5" -> 5 [] c = "6" -> 6 [] c = "7" -> 7 [] c = "8" -> 8 [] c = "9" -> 9

\* the number of consecutive digits of str from position i on
RECURSIVE DigitRun(_, _)
DigitRun(str, i) ==
    IF i <= Len(str) /\ str[i] \in DigitChars THEN 1 + DigitRun(str, i + 1) ELSE 0

\* the value of the n digits of str from position i on
RECURSIVE DigitsValue(_, _, _)
DigitsValue(str, i, n) ==
    IF n = 0 THEN 0 ELSE DigitsValue(str, i, n - 1) * 10 + DigitValue(str[i + n - 1])

\* parseFloat(str): the longest prefix "sign digits . digits" of the string
\* (a string is a sequence of characters); NaN when that prefix has no
\* digit. Values are kept in hundredths, the step of the amount input.
ParseFloat(str) ==
    LET signed == Len(str) >= 1 /\ str[1] \in {"+", "-"}
        start == IF signed THEN 2 ELSE 1
        nInt == DigitRun(str, start)
        dot == start + nInt
        hasDot == dot <= Len(str) /\ str[dot] = "."
        nFrac == IF hasDot THEN DigitRun(str, dot + 1) ELSE 0
        tenths == IF nFrac >= 1 THEN DigitValue(str[dot + 1]) ELSE 0
        hundredths == IF nFrac >= 2 THEN DigitValue(str[dot + 2]) ELSE 0
        magnitude == DigitsValue(str, start, nInt) * 100 + tenths * 10 + hundredths
    IN  IF nInt = 0 /\ nFrac = 0 THEN NaN
        ELSE Number(IF signed /\ str[1] = "-" THEN 0 - magnitude ELSE magnitude)

\* x <= 0 on numbers: false when x is NaN
LessOrEqualZero(x) == ~x.nan /\ x.val <= 0

\* values the form fields are given
CategoryInputs == {"", "Stocks"}
AmountInputs == { <<>>, <<"0">>, <<"1", "0">>, <<"-", "5">>, <<"5", ".", "5">>, <<"a", "b", "c">> }
NotesInputs == {"", "n"}
Dates == {"2025-03-08", "2025-03-09"}
Fields == {"category", "amount", "notes"}
FieldInputs(field) ==
    CASE field = "category" -> CategoryInputs
      [] field = "amount" -> AmountInputs
      [] field = "notes" -> NotesInputs

\* const [allocations, setAllocations] = useState([{ category: "", amount: "", notes: "" }])
InitialAllocations == << [category |-> "", amount |-> <<>>, notes |-> ""] >>

\* { category: "", amount: "" }: the draft of handleAddAllocation and handleRemoveAllocation
EmptyAllocation == [category |-> "", amount |-> <<>>]

\* allocation.notes, undefined for a draft without the optional field
Notes(allocation) == IF "notes" \in DOMAIN allocation THEN allocation.notes ELSE Undefined

\* the state of a NewInvestment component that has just been mounted
FreshForm(v, date) ==
    /\ variant = v
    /\ allocations = IF v = "multi" THEN InitialAllocations ELSE <<>>
    /\ removedAt = 0
    /\ formData = IF v = "multi" THEN [investmentDate |-> date]
                  ELSE [amount |-> <<>>, category |-> "", investmentDate |-> date, notes |-> ""]
    /\ loading = FALSE
    /\ error = NoError
    /\ requests = <<>>
    /\ awaiting = {}
    /\ submits = 0
    /\ db = {}

(* Editing the drafts *)

\* handleAddAllocation: setAllocations([...allocations, { category: "", amount: "" }])
AddAllocation(allocs) == Append(allocs, EmptyAllocation)

\* allocations.filter((_, i) => i !== index)
RECURSIVE FilterOutIndex(_, _)
FilterOutIndex(allocs, index) ==
    IF allocs = <<>> THEN <<>>
    ELSE IF index = 1 THEN Tail(allocs)
    ELSE <<Head(allocs)>> \o FilterOutIndex(Tail(allocs), index - 1)

\* handleRemoveAllocation: the value given to setAllocations
RemoveAllocationFilterOnly(allocs, index) == FilterOutIndex(allocs, index)
RemoveAllocationOffByOne(allocs, index) ==
    IF Len(allocs) = 1 THEN <<EmptyAllocation>> ELSE FilterOutIndex(allocs, index + 1)
RemoveAllocation(allocs, index) ==
    IF Len(allocs) = 1 THEN <<EmptyAllocation>> ELSE FilterOutIndex(allocs, index)

\* { ...updatedAllocations[index], [field]: value }
WithFieldOnly(allocation, field, value) == [f \in {field} |-> value]
WithField(allocation, field, value) ==
    [f \in DOMAIN allocation \cup {field} |-> IF f = field THEN value ELSE allocation[f]]

\* handleAllocationChange: the value given to setAllocations
AllocationChange(allocs, index, field, value) ==
    [allocs EXCEPT ![index] = WithField(@, field, value)]

\* x || 0 on numbers: 0 when x is NaN or zero
OrZero(x) == IF x.nan \/ x.val = 0 THEN 0 ELSE x.val

\* allocations.reduce((sum, allocation) => sum + (parseFloat(allocation.amount) || 0), 0),
\* in hundredths
RECURSIVE ReduceAmounts(_)
ReduceAmounts(allocs) ==
    IF allocs = <<>> THEN 0
    ELSE ReduceAmounts(SubSeq(allocs, 1, Len(allocs) - 1))
         + OrZero(ParseFloat(allocs[Len(allocs)].amount))
TotalAmountWholeUnits(allocs) == ReduceAmounts(allocs) - (ReduceAmounts(allocs) % 100)
TotalAmount(allocs) == ReduceAmounts(allocs)

FormMounted(v) == location = "/new-investment" /\ variant = v

HandleAddAllocation ==
    /\ FormMounted("multi")
    /\ Len(allocations) < MaxAllocs
    /\ allocations' = AddAllocation(allocations)
    /\ removedAt' = 0
    /\ UNCHANGED <<listVars, serverVars, authVars,
                   routeVars, variant, formData, loading, error, requests,
                   awaiting, submits, db>>

HandleRemoveAllocation(index) ==
    /\ FormMounted("multi")
    /\ index \in 1..Len(allocations)
    /\ allocations' = RemoveAllocation(allocations, index)
    /\ removedAt' = IF Len(allocations) > 1 THEN index ELSE 0
    /\ UNCHANGED <<listVars, serverVars, authVars,
                   routeVars, variant, formData, loading, error, requests,
                   awaiting, submits, db>>

HandleAllocationChange(index, field, value) ==
    /\ FormMounted("multi")
    /\ index \in 1..Len(allocations)
    /\ allocations' = AllocationChange(allocations, index, field, value)
    /\ removedAt' = 0
    /\ UNCHANGED <<listVars, serverVars, authVars,
                   routeVars, variant, formData, loading, error, requests,
                   awaiting, submits, db>>

\* onChange of the date input: setFormData({ ...formData, investmentDate: e.target.value })
HandleDateChange(date) ==
    /\ FormMounted("multi")
    /\ formData' = [formData EXCEPT !.investmentDate = date]
    /\ UNCHANGED <<listVars, serverVars, authVars,
                   routeVars, variant, allocations, removedAt, loading, error, requests,
                   awaiting, submits, db>>

(* Submitting the multi-allocation form *)

MsgNotLoggedIn == "You must be logged in to add investments"
MsgInvalid == "All categories must be selected and have a valid amount"
MsgFailedMulti == "Failed to add investments. Please try again."
MsgFailedSingle == "Failed to add investment. Please try again."

\* if (!user)
UserMissingNever(u) == FALSE
UserMissing(u) == u = NoUser

\* !alloc.category || !alloc.amount || parseFloat(alloc.amount) <= 0
InvalidAllocationAnySign(alloc) == alloc.category = "" \/ alloc.amount = <<>>
InvalidAllocation(alloc) ==
    alloc.category = "" \/ alloc.amount = <<>> \/ LessOrEqualZero(ParseFloat(alloc.amount))

\* allocations.some(...)
InvalidAllocations(allocs) == \E i \in 1..Len(allocs) : InvalidAllocation(allocs[i])

\* the row given to insert([...]) for one allocation
InsertRowRawNotes(u, allocation, date) ==
    [user_id |-> u, amount |-> ParseFloat(allocation.amount),
     category |-> allocation.category, investment_date |-> date,
     notes |-> Notes(allocation)]
InsertRow(u, allocation, date) ==
    [user_id |-> u, amount |-> ParseFloat(allocation.amount),
     category |-> allocation.category, investment_date |-> date,
     notes |-> IF Notes(allocation) \in {Undefined, ""} THEN "" ELSE Notes(allocation)]

\* allocations.map((allocation) => supabase.from("investments").insert([...]))
InvestmentPromises(sub, u, allocs, date) ==
    [i \in 1..Len(allocs) |->
        [sub |-> sub, idx |-> i, row |-> InsertRow(u, allocs[i], date), status |-> "pending"]]

\* disabled={loading} on the submit button
SubmitNeverDisabled == FALSE
SubmitDisabled == loading

\* the requests of submission sub, as positions in `requests`
Batch(sub) == {k \in 1..Len(requests) : requests[k].sub = sub}

\* await Promise.all(investmentPromises) continues when every request has finished
AnySettled(sub) == \E k \in Batch(sub) : requests[k].status # "pending"
AllSettled(sub) == \A k \in Batch(sub) : requests[k].status # "pending"

\* results.filter((result) => result.error)
InsertErrors(sub) == {k \in Batch(sub) : requests[k].status = "error"}

\* the message of the error object a failed request returns
InsertErrorMessage(k) == "insert failed: request " \o ToString(k)

\* handleSubmit up to its await
HandleSubmit ==
    /\ FormMounted("multi")
    /\ ~SubmitDisabled
    /\ IF UserMissing(user)
         THEN /\ error' = MsgNotLoggedIn
              /\ UNCHANGED <<loading, requests, awaiting, submits>>
         ELSE IF InvalidAllocations(allocations)
         THEN /\ error' = MsgInvalid
              /\ UNCHANGED <<loading, requests, awaiting, submits>>
         ELSE /\ submits < MaxSubmits
              /\ loading' = TRUE
              /\ error' = NoError
              /\ requests' = requests \o
                   InvestmentPromises(submits + 1, user, allocations, formData.investmentDate)
              /\ awaiting' = awaiting \cup {submits + 1}
              /\ submits' = submits + 1
    /\ UNCHANGED <<listVars, serverVars, authVars,
                   routeVars, variant, allocations, removedAt, formData, db>>

\* the Remote Data Service creates the row of request k
InsertSucceeds(k) ==
    /\ k \in 1..Len(requests)
    /\ requests[k].status = "pending"
    /\ requests' = [requests EXCEPT ![k].status = "ok"]
    /\ db' = db \cup {k}
    /\ UNCHANGED <<listVars, serverVars, authVars,
                   routeVars, variant, allocations, removedAt, formData, loading, error,
                   awaiting, submits>>

\* the Remote Data Service answers request k with an error
InsertFails(k) ==
    /\ k \in 1..Len(requests)
    /\ requests[k].status = "pending"
    /\ requests' = [requests EXCEPT ![k].status = "error"]
    /\ UNCHANGED <<listVars, serverVars, authVars,
                   routeVars, variant, allocations, removedAt, formData, loading, error,
                   awaiting, submits, db>>

\* handleSubmit: throw insertErrors[0].error and the catch block; isError
\* tells whether the error object is an instance of Error
CatchInsertErrorsWithRollback(sub, isError) ==
    /\ error' = IF isError
                THEN InsertErrorMessage(CHOOSE k \in InsertErrors(sub) :
                                          \A j \in InsertErrors(sub) : k <= j)
                ELSE MsgFailedMulti
    /\ db' = db \ Batch(sub)
    /\ UNCHANGED routeVars
CatchInsertErrors(sub, isError) ==
    /\ error' = IF isError
                THEN InsertErrorMessage(CHOOSE k \in InsertErrors(sub) :
                                          \A j \in InsertErrors(sub) : k <= j)
                ELSE MsgFailedMulti
    /\ UNCHANGED <<db, routeVars>>

\* handleSubmit from its await on: the check of the results, navigate or
\* catch, and the finally block
SubmitSettledWithoutFinally(sub) ==
    /\ sub \in awaiting
    /\ variant = "multi"
    /\ AllSettled(sub)
    /\ IF InsertErrors(sub) # {}
         THEN /\ \E isError \in BOOLEAN : CatchInsertErrors(sub, isError)
              /\ loading' = loading
         ELSE /\ Render("/dashboard", session)
              /\ loading' = FALSE
              /\ UNCHANGED <<error, db>>
    /\ awaiting' = awaiting \ {sub}
    /\ UNCHANGED <<listVars, serverVars, authVars,
                   variant, allocations, removedAt, formData, requests, submits>>
SubmitSettled(sub) ==
    /\ sub \in awaiting
    /\ variant = "multi"
    /\ AllSettled(sub)
    /\ IF InsertErrors(sub) # {}
         THEN \E isError \in BOOLEAN : CatchInsertErrors(sub, isError)
         ELSE /\ Render("/dashboard", session)
              /\ UNCHANGED <<error, db>>
    /\ loading' = FALSE
    /\ awaiting' = awaiting \ {sub}
    /\ UNCHANGED <<listVars, serverVars, authVars,
                   variant, allocations, removedAt, formData, requests, submits>>

(* Submitting the single form *)

\* the row given to insert([...]) by the single form
SingleInsertRow(u, data) ==
    [user_id |-> u, amount |-> ParseFloat(data.amount), category |-> data.category,
     investment_date |-> data.investmentDate, notes |-> data.notes]

\* handleSubmit of the single form up to its await
HandleSubmitSingle ==
    /\ FormMounted("single")
    /\ ~SubmitDisabled
    /\ IF UserMissing(user)
         THEN /\ error' = MsgNotLoggedIn
              /\ UNCHANGED <<loading, requests, awaiting, submits>>
         ELSE /\ submits < MaxSubmits
              /\ loading' = TRUE
              /\ error' = NoError
              /\ requests' = Append(requests,
                   [sub |-> submits + 1, idx |-> 1, row |-> SingleInsertRow(user, formData),
                    status |-> "pending"])
              /\ awaiting' = awaiting \cup {submits + 1}
              /\ submits' = submits + 1
    /\ UNCHANGED <<listVars, serverVars, authVars,
                   routeVars, variant, allocations, removedAt, formData, db>>

\* handleSubmit of the single form from its await on
SubmitSettledSingle(sub) ==
    /\ sub \in awaiting
    /\ variant = "single"
    /\ AllSettled(sub)
    /\ IF InsertErrors(sub) # {}
         THEN /\ \E isError \in BOOLEAN :
                    error' = IF isError
                             THEN InsertErrorMessage(CHOOSE k \in InsertErrors(sub) : TRUE)
                             ELSE MsgFailedSingle
              /\ UNCHANGED <<db, routeVars>>
         ELSE /\ Render("/dashboard", session)
              /\ UNCHANGED <<error, db>>
    /\ loading' = FALSE
    /\ awaiting' = awaiting \ {sub}
    /\ UNCHANGED <<listVars, serverVars, authVars,
                   variant, allocations, removedAt, formData, requests, submits>>

----------------------------------------------------------------------------
(* The investments relation and its row-level policies *)

NoReply == [op |-> "none", uid |-> NoUser, id |-> 0, rows |-> {}]

\* auth.uid(): the user of the session a request is made with, null without one
Users == {SessionUser(s) : s \in Sessions}
Callers == Users \cup {NoUser}

\* rows of `investments`: the primary key, the owner, and the columns the
\* list view computes with (amounts in whole units)
Ids == {1, 2, 3}
Amounts == {100, 250}
Columns == [user_id : Users, amount : Amounts, investment_date : Dates]
RowValues == [id : Ids, user_id : Users, amount : Amounts, investment_date : Dates]
RowOf(i, c) ==
    [id |-> i, user_id |-> c.user_id, amount |-> c.amount, investment_date |-> c.investment_date]
Tables == UNION {{{RowOf(i, f[i]) : i \in S} : f \in [S -> Columns]} : S \in SUBSET Ids}
IdsOf(rows) == {r.id : r \in rows}

\* TO authenticated: the role of a request that carries a user's token
Authenticated(uid) == uid # NoUser

\* "Users can view own investments": FOR SELECT USING (auth.uid() = user_id)
ViewOwnInvestments(uid, row) == Authenticated(uid) /\ uid = row.user_id

\* "Users can create own investments": FOR INSERT WITH CHECK (auth.uid() = user_id)
CreateOwnInvestments(uid, row) == Authenticated(uid) /\ uid = row.user_id

\* "Users can update own investments": FOR UPDATE USING (auth.uid() = user_id);
\* without a WITH CHECK the same expression is applied to the new row
UpdateOwnInvestments(uid, row) == Authenticated(uid) /\ uid = row.user_id

\* "Users can delete own investments": FOR DELETE USING (auth.uid() = user_id)
DeleteAnyInvestments(uid, row) == Authenticated(uid)
DeleteOwnInvestments(uid, row) == Authenticated(uid) /\ uid = row.user_id

\* from("investments").select("*") made as uid
SelectFrom(uid, rows) == {r \in rows : ViewOwnInvestments(uid, r)}

\* from("investments").delete().eq("id", id) made as uid: the rows left
DeleteFrom(uid, rows, id) == {r \in rows : ~(r.id = id /\ DeleteOwnInvestments(uid, r))}

\* a select request: no filter but the policy
Select(uid) ==
    /\ reply' = [op |-> "select", uid |-> uid, id |-> 0, rows |-> SelectFrom(uid, table)]
    /\ table' = table

\* an insert request of a row whose key is not taken
Insert(uid, row) ==
    /\ row.id \notin IdsOf(table)
    /\ reply' = [op |-> "insert", uid |-> uid, id |-> row.id, rows |-> {}]
    /\ table' = IF CreateOwnInvestments(uid, row) THEN table \cup {row} ELSE table

\* an update request of the row with key id, giving it new columns: it
\* touches the rows the policy lets uid see, and fails as a whole when a
\* new row does not pass the policy
Update(uid, id, columns) ==
    LET targets == {r \in table : r.id = id /\ UpdateOwnInvestments(uid, r)}
        updated == {RowOf(r.id, columns) : r \in targets}
        checked == \A r \in updated : UpdateOwnInvestments(uid, r)
    IN  /\ reply' = [op |-> "update", uid |-> uid, id |-> id, rows |-> {}]
        /\ table' = IF checked THEN (table \ targets) \cup updated ELSE table

\* a delete request of the row with key id
Delete(uid, id) ==
    /\ reply' = [op |-> "delete", uid |-> uid, id |-> id, rows |-> {}]
    /\ table' = DeleteFrom(uid, table, id)

CallerSelects(uid) ==
    Select(uid) /\ UNCHANGED <<authVars, routeVars, formVars, listVars>>
CallerInserts(uid, row) ==
    Insert(uid, row) /\ UNCHANGED <<authVars, routeVars, formVars, listVars>>
CallerUpdates(uid, id, columns) ==
    Update(uid, id, columns) /\ UNCHANGED <<authVars, routeVars, formVars, listVars>>
CallerDeletes(uid, id) ==
    Delete(uid, id) /\ UNCHANGED <<authVars, routeVars, formVars, listVars>>

----------------------------------------------------------------------------
(* The list view: Dashboard *)

MsgOccurred == "An error occurred"
MsgSelectFailed == "select failed"
MsgDeleteFailed == "delete failed"

\* the state of a Dashboard component that has just been mounted: the
\* loader is shown and the mount effect has called fetchInvestments
FreshList ==
    /\ investments = <<>>
    /\ listLoading = TRUE
    /\ listError = NoError
    /\ fetchPending = TRUE
    /\ fetchCount = 1
    /\ deleteCalls = {}
    /\ deleteCount = 0
    /\ fetched = <<>>
    /\ deleteLog = <<>>

\* no request has been made to the relation
QuietRelation(rows) ==
    /\ table = rows
    /\ reply = NoReply

\* investment_date as a day number, to compare dates
DayOf(date) == IF date = "2025-03-08" THEN 8 ELSE 9

\* .order("investment_date", { ascending: false }): the sequences the
\* select can return for a set of rows; rows of one date come in any order
Orderings(rows) ==
    {data \in [1..Cardinality(rows) -> rows] :
        /\ \A i, j \in DOMAIN data : i # j => data[i] # data[j]
        /\ \A i, j \in DOMAIN data :
             i < j => DayOf(data[i].investment_date) >= DayOf(data[j].investment_date)}

\* err instanceof Error ? err.message : "An error occurred"
ErrorText(isError, message) == IF isError THEN message ELSE MsgOccurred

\* prev.filter((item) => item.id !== id)
OnlyId(list, id) == SelectSeq(list, LAMBDA item : item.id = id)
WithoutId(list, id) == SelectSeq(list, LAMBDA item : item.id # id)

\* fetchInvestments after its await, the select having returned rows
FetchSucceeds ==
    /\ fetchPending
    /\ fetchPending' = FALSE
    /\ Select(OptionalUser(session))
    /\ \E data \in Orderings(SelectFrom(OptionalUser(session), table)) :
         investments' = data /\ fetched' = data
    /\ listLoading' = FALSE
    /\ UNCHANGED <<listError, fetchCount, deleteCalls, deleteCount, deleteLog,
                   authVars, routeVars, formVars>>

\* fetchInvestments after its await, the select having returned an error
FetchFailsRetrying(isError) ==
    /\ fetchPending
    /\ fetchPending' = (fetchCount = 1)
    /\ fetchCount' = IF fetchCount = 1 THEN fetchCount + 1 ELSE fetchCount
    /\ listError' = ErrorText(isError, MsgSelectFailed)
    /\ listLoading' = FALSE
    /\ UNCHANGED <<investments, deleteCalls, deleteCount, fetched, deleteLog, serverVars,
                   authVars, routeVars, formVars>>
FetchFails(isError) ==
    /\ fetchPending
    /\ fetchPending' = FALSE
    /\ listError' = ErrorText(isError, MsgSelectFailed)
    /\ listLoading' = FALSE
    /\ UNCHANGED <<investments, fetchCount, deleteCalls, deleteCount, fetched, deleteLog,
                   serverVars, authVars, routeVars, formVars>>

\* deleteInvestment(id) up to its await, from the Delete cell of a rendered row
DeleteInvestmentOptimistic(id) ==
    /\ location = "/dashboard"
    /\ ~listLoading
    /\ \E i \in 1..Len(investments) : investments[i].id = id
    /\ deleteCount < MaxDeletes
    /\ deleteCount' = deleteCount + 1
    /\ deleteCalls' = deleteCalls \cup {[call |-> deleteCount + 1, id |-> id]}
    /\ investments' = WithoutId(investments, id)
    /\ UNCHANGED <<listLoading, listError, fetchPending, fetchCount, fetched, deleteLog,
                   serverVars, authVars, routeVars, formVars>>
DeleteInvestment(id) ==
    /\ location = "/dashboard"
    /\ ~listLoading
    /\ \E i \in 1..Len(investments) : investments[i].id = id
    /\ deleteCount < MaxDeletes
    /\ deleteCount' = deleteCount + 1
    /\ deleteCalls' = deleteCalls \cup {[call |-> deleteCount + 1, id |-> id]}
    /\ UNCHANGED <<investments, listLoading, listError, fetchPending, fetchCount, fetched,
                   deleteLog, serverVars, authVars, routeVars, formVars>>

\* deleteInvestment after its await, the delete having returned no error
DeleteSucceeds(c) ==
    /\ c \in deleteCalls
    /\ deleteCalls' = deleteCalls \ {c}
    /\ Delete(OptionalUser(session), c.id)
    /\ investments' = WithoutId(investments, c.id)
    /\ deleteLog' = Append(deleteLog, [call |-> c.call, id |-> c.id, ok |-> TRUE])
    /\ UNCHANGED <<listLoading, listError, fetchPending, fetchCount, deleteCount, fetched,
                   authVars, routeVars, formVars>>

\* deleteInvestment after its await, the delete having returned an error
DeleteFails(c, isError) ==
    /\ c \in deleteCalls
    /\ deleteCalls' = deleteCalls \ {c}
    /\ listError' = ErrorText(isError, MsgDeleteFailed)
    /\ deleteLog' = Append(deleteLog, [call |-> c.call, id |-> c.id, ok |-> FALSE])
    /\ UNCHANGED <<investments, listLoading, fetchPending, fetchCount, deleteCount, fetched,
                   serverVars, authVars, routeVars, formVars>>

\* if (loading) return the loader instead of the table
LoaderShown == listLoading

\* {investments.length === 0 && (<tr> ... no investments yet ... </tr>)}
PlaceholderRow(list) == Len(list) = 0

\* {investments.length !== 0 && (<tr> ... totals ... </tr>)}
TotalsRowFromSecondItem(list) == Len(list) > 1
TotalsRow(list) == Len(list) # 0

\* the rows of the table the Dashboard renders once it is past the loader
PlaceholderRendered == ~LoaderShown /\ PlaceholderRow(investments)
TotalsRendered == ~LoaderShown /\ TotalsRow(investments)

\* the date range of the totals row:
\* `${investments[investments.length - 1]?.investment_date} - ${investments[0]?.investment_date}`
TotalsDateRange(list) ==
    list[Len(list)].investment_date \o " - " \o list[1].investment_date

\* the amount of the totals row: investments.reduce((sum, item) => sum + item.amount, 0)
RECURSIVE ReduceRows(_)
ReduceRows(list) ==
    IF list = <<>> THEN 0
    ELSE ReduceRows(SubSeq(list, 1, Len(list) - 1)) + list[Len(list)].amount
TotalsAmountSkippingFirst(list) == IF list = <<>> THEN 0 ELSE ReduceRows(Tail(list))
TotalsAmount(list) == ReduceRows(list)

----------------------------------------------------------------------------
(* The session store with the router *)

\* AuthProvider's first render and mount effects: the state restored from
\* local storage, the restored value written back, getSession() called and
\* the listener subscribed
InitAuth ==
    /\ \E stored \in StoredValues :
         /\ session = RestoredState(stored, NullSession)
         /\ storage = Stringify(RestoredState(stored, NullSession))
    /\ user = NoUser
    /\ persistPending = FALSE
    /\ getSessionPending = TRUE
    /\ signOutPending = FALSE
    /\ signOutCalled = FALSE
    /\ eventAfterSignOut = FALSE
    /\ lastEvent = NoEvent
    /\ mounted = TRUE
    /\ subscribed = TRUE
    /\ unheard = NoEvent

InitStore ==
    /\ InitAuth
    /\ \E path \in Paths :
         /\ routed = path
         /\ location = Resolve(path, session)
    /\ FreshForm("multi", "2025-03-08")
    /\ FreshList
    /\ QuietRelation({})

NextStore ==
    \/ PersistEffect
    \/ \E result \in Payloads : GetSessionResolve(result)
    \/ \E payload \in Payloads : AuthStateChange(payload)
    \/ HandleSignOut
    \/ SignOutResolve
    \/ \E path \in Paths : NavigateTo(path)

SpecStore == InitStore /\ [][NextStore]_vars

\* the page is loaded again at the current location: AuthProvider is
\* constructed from what local storage holds, its first write effect runs,
\* and the callbacks of the page that was left are gone
Reload ==
    /\ session' = RestoredState(storage, NullSession)
    /\ storage' = Stringify(RestoredState(storage, NullSession))
    /\ user' = NoUser
    /\ persistPending' = FALSE
    /\ getSessionPending' = TRUE
    /\ signOutPending' = FALSE
    /\ signOutCalled' = FALSE
    /\ eventAfterSignOut' = FALSE
    /\ lastEvent' = NoEvent
    /\ mounted' = TRUE
    /\ subscribed' = TRUE
    /\ UNCHANGED unheard
    /\ Render(location, RestoredState(storage, NullSession))
    /\ UNCHANGED <<formVars, listVars, serverVars>>

\* the store up to and after the unmount of AuthProvider: what the mounted
\* tree does stops with the unmount, the service goes on emitting events
NextTeardown ==
    \/ mounted /\ PersistEffect
    \/ \E result \in Payloads : mounted /\ GetSessionResolve(result)
    \/ \E payload \in Payloads : AuthStateChange(payload)
    \/ mounted /\ HandleSignOut
    \/ mounted /\ SignOutResolve
    \/ \E path \in Paths : mounted /\ NavigateTo(path)
    \/ Teardown
    \/ \E payload \in Payloads : AuthEventUnheard(payload)
    \/ GetSessionResolveUnmounted

SpecTeardown == InitStore /\ [][NextTeardown]_vars

\* a first visit: local storage holds no session
InitFirstVisit == InitStore /\ session = NullSession

NextReload == NextStore \/ Reload

SpecReload == InitFirstVisit /\ [][NextReload]_vars

----------------------------------------------------------------------------
(* The entry form behind the route guard *)

\* a store state in which the guard shows the form: a session restored from
\* local storage whose getSession() is still pending (no user yet), or the
\* session and its user once getSession() has resolved
InitSignedIn ==
    /\ \E s \in Sessions, u \in BOOLEAN :
         /\ session = s
         /\ user = IF u THEN SessionUser(s) ELSE NoUser
         /\ getSessionPending = ~u
         /\ storage = Stringify(s)
    /\ persistPending = FALSE
    /\ signOutPending = FALSE
    /\ signOutCalled = FALSE
    /\ eventAfterSignOut = FALSE
    /\ lastEvent = NoEvent
    /\ mounted = TRUE
    /\ subscribed = TRUE
    /\ unheard = NoEvent
    /\ routed = "/new-investment"
    /\ location = Resolve("/new-investment", session)

\* the multi-allocation form being edited, once getSession() has resolved
InitForm ==
    /\ InitSignedIn
    /\ ~getSessionPending
    /\ \E date \in Dates : FreshForm("multi", date)
    /\ FreshList
    /\ QuietRelation({})

NextForm ==
    \/ HandleAddAllocation
    \/ \E index \in 1..MaxAllocs : HandleRemoveAllocation(index)
    \/ \E index \in 1..MaxAllocs, field \in Fields :
         \E value \in FieldInputs(field) : HandleAllocationChange(index, field, value)
    \/ \E date \in Dates : HandleDateChange(date)

SpecForm == InitForm /\ [][NextForm]_vars

\* the same form edited with one non-empty value per field, for the
\* properties of single edit steps
EditInputs(field) ==
    CASE field = "category" -> CategoryInputs
      [] field = "amount" -> { <<>>, <<"1", "0">> }
      [] field = "notes" -> NotesInputs

InitEdit == InitForm /\ session = "s1"

NextEdit ==
    \/ HandleAddAllocation
    \/ \E index \in 1..MaxAllocs : HandleRemoveAllocation(index)
    \/ \E index \in 1..MaxAllocs, field \in Fields :
         \E value \in EditInputs(field) : HandleAllocationChange(index, field, value)
    \/ \E date \in Dates : HandleDateChange(date)

SpecEdit == InitEdit /\ [][NextEdit]_vars

\* drafts a submission is tried on: the field values an edit can give, with
\* and without the optional notes
SubmitAmounts == { <<>>, <<"0">>, <<"1", "0">>, <<"-", "5">>, <<"a", "b", "c">> }
SubmitDrafts ==
    {[category |-> c, amount |-> a] : c \in CategoryInputs, a \in SubmitAmounts}
    \cup {[category |-> c, amount |-> a, notes |-> n] :
            c \in CategoryInputs, a \in SubmitAmounts, n \in NotesInputs}

\* either form, filled in, about to be submitted
InitSubmit ==
    /\ InitSignedIn
    /\ removedAt = 0
    /\ FreshList
    /\ QuietRelation({})
    /\ loading = FALSE
    /\ error = NoError
    /\ requests = <<>>
    /\ awaiting = {}
    /\ submits = 0
    /\ db = {}
    /\ \E date \in Dates :
         \/ /\ variant = "multi"
            /\ formData = [investmentDate |-> date]
            /\ \E n \in 1..MaxAllocs : allocations \in [1..n -> SubmitDrafts]
         \/ /\ variant = "single"
            /\ allocations = <<>>
            /\ \E c \in CategoryInputs, a \in SubmitAmounts, n \in NotesInputs :
                 formData = [amount |-> a, category |-> c, investmentDate |-> date,
                             notes |-> n]

NextSubmit ==
    \/ HandleSubmit
    \/ HandleSubmitSingle
    \/ \E k \in 1..(MaxSubmits * MaxAllocs) : InsertSucceeds(k)
    \/ \E k \in 1..(MaxSubmits * MaxAllocs) : InsertFails(k)
    \/ \E sub \in 1..MaxSubmits : SubmitSettled(sub)
    \/ \E sub \in 1..MaxSubmits : SubmitSettledSingle(sub)

SpecSubmit == InitSubmit /\ [][NextSubmit]_vars

\* submission under the scheduling the code runs on: every issued request
\* is answered, and a handleSubmit whose awaited requests have all been
\* answered is resumed. One session, a valid and an invalid draft.
RetryDrafts == {[category |-> c, amount |-> <<"1", "0">>] : c \in CategoryInputs}
InitRetry ==
    /\ InitSubmit
    /\ session = "s1"
    /\ variant = "multi" => \A i \in 1..Len(allocations) : allocations[i] \in RetryDrafts
    /\ variant = "single" => formData.amount = <<"1", "0">> /\ formData.notes = ""

FairSubmit ==
    /\ \A k \in 1..(MaxSubmits * MaxAllocs) : WF_vars(InsertSucceeds(k) \/ InsertFails(k))
    /\ \A sub \in 1..MaxSubmits : WF_vars(SubmitSettled(sub) \/ SubmitSettledSingle(sub))

SpecRetry == InitRetry /\ [][NextSubmit]_vars /\ FairSubmit

----------------------------------------------------------------------------
(* The list view behind the route guard, and the relation on its own *)

\* the Dashboard just mounted for the user of session s1, getSession()
\* resolved, over any content of the relation
InitList ==
    /\ session = "s1"
    /\ user = SessionUser("s1")
    /\ storage = Stringify("s1")
    /\ persistPending = FALSE
    /\ getSessionPending = FALSE
    /\ signOutPending = FALSE
    /\ signOutCalled = FALSE
    /\ eventAfterSignOut = FALSE
    /\ lastEvent = NoEvent
    /\ mounted = TRUE
    /\ subscribed = TRUE
    /\ unheard = NoEvent
    /\ routed = "/dashboard"
    /\ location = Resolve("/dashboard", session)
    /\ FreshForm("multi", "2025-03-08")
    /\ FreshList
    /\ \E rows \in Tables : QuietRelation(rows)

NextList ==
    \/ FetchSucceeds
    \/ \E isError \in BOOLEAN : FetchFails(isError)
    \/ \E id \in Ids : DeleteInvestment(id)
    \/ \E call \in 1..MaxDeletes, id \in Ids : DeleteSucceeds([call |-> call, id |-> id])
    \/ \E call \in 1..MaxDeletes, id \in Ids, isError \in BOOLEAN :
         DeleteFails([call |-> call, id |-> id], isError)

SpecList == InitList /\ [][NextList]_vars

\* the list view when the select of fetchInvestments is answered
FairFetch == WF_vars(FetchSucceeds \/ \E isError \in BOOLEAN : FetchFails(isError))

SpecListFair == SpecList /\ FairFetch

\* the relation with requests from every caller, signed in or not; no
\* client is mounted
InitRelation ==
    /\ InitAuth
    /\ session = NullSession
    /\ routed = "/login"
    /\ location = Resolve("/login", session)
    /\ FreshForm("multi", "2025-03-08")
    /\ FreshList
    /\ \E rows \in Tables : QuietRelation(rows)

NextRelation ==
    \/ \E uid \in Callers : CallerSelects(uid)
    \/ \E uid \in Callers, row \in RowValues : CallerInserts(uid, row)
    \/ \E uid \in Callers, id \in Ids, columns \in Columns : CallerUpdates(uid, id, columns)
    \/ \E uid \in Callers, id \in Ids : CallerDeletes(uid, id)

SpecRelation == InitRelation /\ [][NextRelation]_vars

----------------------------------------------------------------------------
(* Properties of the session store and the route guard *)

\* C1: once an auth-state-change event has been delivered, the session the
\* store exposes is the payload of the event delivered last, whenever the
\* initial getSession() resolves.
SessionIsLastEventPayload == lastEvent # NoEvent => session = lastEvent

\* C2: when signOut has been called, the delivery of an event carrying a
\* null session leaves the session and the user absent, and the guard sends
\* the Dashboard and NewInvestment routes to the sign-in view.
NullEventAfterSignOutClears ==
    [][(signOutCalled /\ AuthStateChange(NullSession)) =>
         /\ session' = NullSession
         /\ user' = NoUser
         /\ location' = "/login"
         /\ \A path \in {"/dashboard", "/new-investment"} :
              Resolve(path, session') = "/login"]_vars

\* the null event of a sign-out has turned a protected route into the sign-in view
SignedOutOnProtectedRoute ==
    /\ signOutCalled
    /\ lastEvent = NullSession
    /\ session = NullSession
    /\ user = NoUser
    /\ routed \in {"/dashboard", "/new-investment"}
    /\ location = "/login"

\* C3: at every render of a guarded route the protected content is shown
\* exactly when the session is present; with the session absent the router
\* is at /login and never at a protected path.
GuardRendersIffSession ==
    /\ routed \in ProtectedPaths => (location = routed <=> session # NullSession)
    /\ session = NullSession => location = "/login"

\* an event carrying null has made the guard redirect the Dashboard route
GuardRedirected ==
    /\ routed = "/dashboard"
    /\ lastEvent = NullSession
    /\ session = NullSession
    /\ location = "/login"

\* C12 as stated: the call of signOut and its completion leave the session
\* and the user unchanged, and from the call until an event is delivered no
\* step changes them.
UnchangedFromSignOutToEvent ==
    [][((signOutCalled' /\ ~eventAfterSignOut') \/ HandleSignOut \/ SignOutResolve)
       => UNCHANGED <<session, user>>]_vars

\* C12, amended: the call of signOut and its completion leave the session
\* and the user unchanged, and from the call until an event is delivered the
\* only step that changes them is the initial getSession() resolving.
SignOutLeavesSessionToEventOrFetch ==
    [][((signOutCalled' /\ ~eventAfterSignOut') \/ HandleSignOut \/ SignOutResolve)
       => (UNCHANGED <<session, user>> \/ \E result \in Payloads : GetSessionResolve(result))]_vars

\* signOut was called and has completed, no event has arrived, and the
\* session and the user are still exposed
SignedOutStillExposed ==
    /\ signOutCalled
    /\ ~signOutPending
    /\ ~eventAfterSignOut
    /\ session # NullSession
    /\ user # NoUser

\* C13: when the initial getSession() resolves, the exposed session is its
\* result and the user is that session's user, also when the result is null
\* and a session had been restored from local storage.
FetchedSessionWins ==
    [][\A result \in Payloads :
         GetSessionResolve(result)
         => /\ session' = result
            /\ user' = IF result = NullSession THEN NoUser ELSE SessionUser(result)]_vars

\* getSession() resolved with null over a session restored from local
\* storage, whose stored copy has not been rewritten yet
RestoredSessionCleared ==
    /\ ~getSessionPending
    /\ lastEvent = NoEvent
    /\ session = NullSession
    /\ user = NoUser
    /\ persistPending
    /\ storage = Stringify("s1")

\* C19: a change of the session by the getSession result or by an event
\* leaves a write pending; whenever no write is pending the stored entry is
\* the serialization of the current session; and a store constructed then
\* starts from the session the previous one exposed.
StoredEntryFollowsSession ==
    /\ [](~persistPending => storage = Stringify(session))
    /\ [][(/\ \/ \E result \in Payloads : GetSessionResolve(result)
              \/ \E payload \in Payloads : AuthStateChange(payload)
           /\ session' # session)
          => persistPending']_vars
    /\ [][(Reload /\ ~persistPending) => session' = session]_vars

\* a store constructed from the entry written for session s2: after a first
\* visit the session is s2 without a user only when it was read back
RestoredFromWrittenEntry ==
    /\ getSessionPending
    /\ session = "s2"
    /\ user = NoUser
    /\ ~persistPending
    /\ storage = Stringify("s2")

\* C18: in every state of the store the user is absent exactly when the
\* session is absent and is otherwise the session's user.
UserDerivedFromSession ==
    user = IF session = NullSession THEN NoUser ELSE SessionUser(session)

----------------------------------------------------------------------------
(* Properties of the entry form *)

\* C4: with a user present, a submission of drafts of which one has an
\* empty category, an empty amount or a parsed amount <= 0 is rejected: it
\* issues no create request, sets the one validation message and does not
\* navigate.
InvalidSubmissionRejected ==
    [][(/\ HandleSubmit
        /\ user # NoUser
        /\ \E i \in 1..Len(allocations) :
             \/ allocations[i].category = ""
             \/ allocations[i].amount = <<>>
             \/ (~ParseFloat(allocations[i].amount).nan
                   /\ ParseFloat(allocations[i].amount).val <= 0))
       => /\ error' = MsgInvalid
          /\ requests' = requests
          /\ UNCHANGED <<location, loading, awaiting, submits, db>>]_vars

\* a submission of a draft with a negative amount has been rejected
NegativeAmountRejected ==
    /\ variant = "multi"
    /\ user # NoUser
    /\ \E i \in 1..Len(allocations) :
         allocations[i].category # "" /\ allocations[i].amount = <<"-", "5">>
    /\ \A i \in 1..Len(allocations) :
         allocations[i].category # "" /\ allocations[i].amount # <<>>
    /\ error = MsgInvalid
    /\ requests = <<>>

\* C5: with a user present, a submission of drafts that are all valid issues
\* exactly one create request per draft, in the drafts' order, each carrying
\* the user's identifier, the draft's parsed amount and category, the shared
\* date and the draft's notes, or the empty string when it has none.
OneRequestPerDraft ==
    [][(/\ HandleSubmit
        /\ user # NoUser
        /\ \A i \in 1..Len(allocations) :
             /\ allocations[i].category # ""
             /\ allocations[i].amount # <<>>
             /\ ~(~ParseFloat(allocations[i].amount).nan
                    /\ ParseFloat(allocations[i].amount).val <= 0))
       => /\ Len(requests') = Len(requests) + Len(allocations)
          /\ \A k \in 1..Len(requests) : requests'[k] = requests[k]
          /\ \A i \in 1..Len(allocations) :
               /\ requests'[Len(requests) + i].status = "pending"
               /\ requests'[Len(requests) + i].row =
                    [user_id |-> user,
                     amount |-> ParseFloat(allocations[i].amount),
                     category |-> allocations[i].category,
                     investment_date |-> formData.investmentDate,
                     notes |-> IF "notes" \in DOMAIN allocations[i]
                               THEN allocations[i].notes ELSE ""]]_vars

\* two valid drafts, one of them without notes, have been submitted
TwoDraftsSubmitted ==
    /\ variant = "multi"
    /\ submits = 1
    /\ Len(allocations) = 2
    /\ Len(requests) = 2
    /\ "notes" \notin DOMAIN allocations[1]
    /\ requests[1].row.notes = ""
    /\ requests[2].row.notes = "n"

\* C6: with the user absent, a submission of either form sets the error,
\* issues no create request and does not navigate, also while the session is
\* present and the guard shows the form.
SubmissionWithoutUserFails ==
    [][((HandleSubmit \/ HandleSubmitSingle) /\ user = NoUser)
       => /\ error' = MsgNotLoggedIn
          /\ requests' = requests
          /\ UNCHANGED <<location, loading, awaiting, submits, db>>]_vars

\* the single form has been submitted with a session and no user
SubmittedWithoutUser ==
    /\ variant = "single"
    /\ session # NullSession
    /\ user = NoUser
    /\ location = "/new-investment"
    /\ error = MsgNotLoggedIn
    /\ requests = <<>>

\* C7: when a batch has finished with a failed create request, every row
\* its successful requests created is still persisted, and after the latest
\* such batch an error is set and the form is still shown.
PartialBatchStaysPersisted ==
    variant = "multi" =>
      \A sub \in 1..submits :
        (sub \notin awaiting /\ \E k \in Batch(sub) : requests[k].status = "error")
        => /\ \A k \in Batch(sub) : requests[k].status = "ok" => k \in db
           /\ sub = submits =>
                (error # NoError /\ ~loading /\ location = "/new-investment")

\* a batch of two has finished with one row created and one request failed
PartialBatchPersisted ==
    /\ variant = "multi"
    /\ awaiting = {}
    /\ \E k \in Batch(submits) : requests[k].status = "error"
    /\ \E k \in Batch(submits) : requests[k].status = "ok" /\ k \in db
    /\ error # NoError

\* C8: the form has navigated to /dashboard exactly when a submission has
\* continued past its await with every create request finished without an
\* error; it never navigates while a request of the batch is unfinished.
NavigatesIffAllCreated ==
    location = "/dashboard" <=>
      \E sub \in 1..submits :
        sub \notin awaiting /\ \A k \in Batch(sub) : requests[k].status = "ok"

\* the multi form has navigated after both requests of a batch succeeded
NavigatedAfterBatch ==
    /\ variant = "multi"
    /\ location = "/dashboard"
    /\ Cardinality(Batch(submits)) = 2
    /\ \A k \in Batch(submits) : requests[k].status = "ok"

\* C9: while a create request is in flight, loading is true and the submit
\* control is disabled, and the requests in flight all belong to one submission.
OneSubmissionInFlight ==
    LET inFlight == {k \in 1..Len(requests) : requests[k].status = "pending"}
    IN  /\ inFlight # {} => (loading /\ SubmitDisabled)
        /\ Cardinality({requests[k].sub : k \in inFlight}) <= 1

\* a second submission is in flight after a first one has failed
SecondSubmissionInFlight ==
    /\ submits = 2
    /\ awaiting = {2}
    /\ \E k \in Batch(2) : requests[k].status = "pending"
    /\ \A k \in Batch(1) : requests[k].status # "pending"
    /\ loading

\* C10: add, remove and edit never leave the draft sequence empty, and
\* removing the only draft yields one draft with empty category and amount.
DraftsNeverEmpty ==
    /\ [](Len(allocations) >= 1)
    /\ [][\A index \in 1..MaxAllocs :
            (HandleRemoveAllocation(index) /\ Len(allocations) = 1)
            => /\ Len(allocations') = 1
               /\ allocations'[1].category = ""
               /\ allocations'[1].amount = <<>>]_vars

\* the only draft, edited, has been removed
OnlyDraftRemoved == allocations = <<EmptyAllocation>>

EditChangesOneFieldOfOneDraft ==
    [][\A index \in 1..MaxAllocs, field \in Fields :
         \A value \in EditInputs(field) :
           HandleAllocationChange(index, field, value)
           => /\ Len(allocations') = Len(allocations)
              /\ \A j \in 1..Len(allocations) : j # index => allocations'[j] = allocations[j]
              /\ DOMAIN allocations'[index] = DOMAIN allocations[index] \cup {field}
              /\ allocations'[index][field] = value
              /\ \A f \in DOMAIN allocations[index] \ {field} :
                   allocations'[index][f] = allocations[index][f]
              /\ formData' = formData]_vars

\* the category of the second draft was edited: its amount is still empty,
\* it still has no notes, and the first draft is as it was created
SecondDraftCategoryEdited ==
    /\ Len(allocations) = 2
    /\ allocations[1] = InitialAllocations[1]
    /\ allocations[2].category = "Stocks"
    /\ allocations[2].amount = <<>>
    /\ "notes" \notin DOMAIN allocations[2]
    /\ removedAt = 0

\* C14: the derived total is the sum over the drafts, in order, of each
\* draft's parsed amount, an empty or unparsable amount counting as zero; the
\* amounts "10", "abc" and "5.5" total 15.5.
DerivedTotalIsSumOfParsed ==
    /\ TotalAmount(SubSeq(allocations, 1, 0)) = 0
    /\ \A k \in 1..Len(allocations) :
         TotalAmount(SubSeq(allocations, 1, k))
         = TotalAmount(SubSeq(allocations, 1, k - 1))
           + (LET parsed == ParseFloat(allocations[k].amount)
              IN  IF parsed.nan THEN 0 ELSE parsed.val)
    /\ TotalAmount(<< [category |-> "", amount |-> <<"1", "0">>],
                      [category |-> "", amount |-> <<"a", "b", "c">>],
                      [category |-> "", amount |-> <<"5", ".", "5">>] >>) = 1550

\* an unparsable draft next to a draft of 5.5, the total being 5.5
TotalSkipsUnparsable ==
    /\ Len(allocations) = 2
    /\ allocations[1].amount = <<"a", "b", "c">>
    /\ allocations[2].amount = <<"5", ".", "5">>
    /\ TotalAmount(allocations) = 550

\* C20: every create request the multi form has issued carries an amount
\* that is a number and is greater than zero.
MultiRequestsCarryPositiveAmount ==
    variant = "multi"
    => \A k \in 1..Len(requests) :
         /\ ~requests[k].row.amount.nan
         /\ requests[k].row.amount.val > 0

\* C21: when a batch with one or more failed requests settles, the error
\* shown is the message of the failed request that comes first in the batch,
\* whatever the order in which the requests finished.
FirstFailureMessageShown ==
    [][\A sub \in 1..MaxSubmits :
         (SubmitSettled(sub) /\ InsertErrors(sub) # {})
         => \E k \in InsertErrors(sub) :
              /\ \A j \in InsertErrors(sub) : k <= j
              /\ error' = InsertErrorMessage(k)]_vars

\* C22: a submission attempt that issues no request (missing user, failed
\* validation) leaves the loading flag false, and every submission that
\* issued requests is, once they have all been answered, eventually past
\* its await with the loading flag false and the submit control enabled
\* whenever the form is still shown.
SubmissionLeavesFormRetryable ==
    /\ [][((HandleSubmit \/ HandleSubmitSingle) /\ requests' = requests)
          => (~loading' /\ error' # NoError)]_vars
    /\ \A sub \in 1..MaxSubmits :
         (sub \in awaiting)
         ~> (sub \notin awaiting
             /\ (location = "/new-investment" => ~loading /\ ~SubmitDisabled))

\* a batch of two requests, one of which failed, has settled: the form is
\* still shown with an error, not loading
FailedBatchSettled ==
    /\ variant = "multi"
    /\ location = "/new-investment"
    /\ awaiting = {}
    /\ Len(requests) = 2
    /\ \E k \in 1..2 : requests[k].status = "error"
    /\ error # NoError
    /\ ~loading

----------------------------------------------------------------------------
(* Properties of the list view *)

\* C11 as stated: an item leaves the list only in the step in which a delete
\* call for it returns success; issuing a delete leaves the list unchanged;
\* a delete that returns an error leaves the list unchanged and sets an
\* error; and the item of every outstanding delete call is in the list.
DeletedOnlyAfterSuccessAndKeptMeanwhile ==
    /\ [](\A c \in deleteCalls : \E i \in 1..Len(investments) : investments[i].id = c.id)
    /\ [][\A i \in 1..Len(investments) :
            (\A j \in 1..Len(investments') : investments'[j] # investments[i])
            => \E c \in deleteCalls : c.id = investments[i].id /\ DeleteSucceeds(c)]_vars
    /\ [][\A id \in Ids : DeleteInvestment(id) => investments' = investments]_vars
    /\ [][\A c \in deleteCalls, isError \in BOOLEAN :
            DeleteFails(c, isError) => investments' = investments /\ listError' # NoError]_vars

\* C11, amended: an item leaves the list only in the step in which a delete
\* call for it returns success, and that step removes nothing else; issuing
\* a delete leaves the list unchanged; a delete that returns an error leaves
\* the list unchanged and sets an error.
DeletedOnlyAfterSuccess ==
    /\ [][\A i \in 1..Len(investments) :
            (\A j \in 1..Len(investments') : investments'[j] # investments[i])
            => \E c \in deleteCalls : c.id = investments[i].id /\ DeleteSucceeds(c)]_vars
    /\ [][\A id \in Ids : DeleteInvestment(id) => investments' = investments]_vars
    /\ [][\A c \in deleteCalls, isError \in BOOLEAN :
            DeleteFails(c, isError) => investments' = investments /\ listError' # NoError]_vars

\* one delete was issued and returned an error: the two fetched items are
\* still listed and an error is set
FailedDeleteKeptItem ==
    /\ deleteCount = 1
    /\ deleteCalls = {}
    /\ listError # NoError
    /\ Len(investments) = 2
    /\ Cardinality(SelectFrom(OptionalUser(session), table)) = 2

\* C15: the date range of the totals row reads newest to oldest: the date of
\* the first element of the list, then the date of its last element.
DateRangeNewestFirst ==
    (~listLoading /\ investments # <<>>)
    => TotalsDateRange(investments)
       = investments[1].investment_date \o " - "
         \o investments[Len(investments)].investment_date

\* C16: the amount of the totals row is the sum of the amounts of the items
\* in the in-memory list, in every state: nothing for the empty list, and
\* each item adds its amount; the amounts 100 and 250 total 350.
TotalsAmountIsSumOfList ==
    /\ TotalsAmount(SubSeq(investments, 1, 0)) = 0
    /\ \A k \in 1..Len(investments) :
         TotalsAmount(SubSeq(investments, 1, k))
         = TotalsAmount(SubSeq(investments, 1, k - 1)) + investments[k].amount
    /\ TotalsAmount(<< [id |-> 1, user_id |-> "u1", amount |-> 100, investment_date |-> "2025-03-09"],
                       [id |-> 2, user_id |-> "u1", amount |-> 250, investment_date |-> "2025-03-08"] >>)
       = 350

\* three items were fetched, one delete returned success and one an error:
\* the two items left total 350
TotalAfterDeletes ==
    /\ deleteCount = 2
    /\ deleteCalls = {}
    /\ listError # NoError
    /\ Len(investments) = 2
    /\ Cardinality(table) = 2
    /\ TotalsAmount(investments) = 350

\* C23: the list is the fetched list without the items whose delete has
\* returned success, the other items in their fetched order, whatever the
\* order in which the delete calls returned; so two outstanding deletes of
\* X and Y that both succeed leave neither and keep the rest, and a delete
\* that returned an error removes nothing.
ListIsFetchedWithoutDeleted ==
    LET succeeded == {deleteLog[n].id : n \in {m \in DOMAIN deleteLog : deleteLog[m].ok}}
    IN  /\ Len(investments) = Cardinality({k \in DOMAIN fetched : fetched[k].id \notin succeeded})
        /\ \A k \in DOMAIN fetched :
             fetched[k].id \notin succeeded
             => investments[Cardinality({j \in 1..k : fetched[j].id \notin succeeded})]
                = fetched[k]

\* of three fetched items two were deleted by calls outstanding together,
\* the call issued second returning first; both succeeded
TwoDeletesCrossed ==
    /\ Len(fetched) = 3
    /\ Len(deleteLog) = 2
    /\ deleteLog[1].call = 2 /\ deleteLog[1].ok
    /\ deleteLog[2].call = 1 /\ deleteLog[2].ok
    /\ deleteLog[1].id # deleteLog[2].id
    /\ Len(investments) = 1

\* C26: fetchInvestments issues one select, at mount, and none after it;
\* once the select is answered the loader has stopped, for good; an answer
\* with an error sets an error and leaves the list empty, and the list is
\* still empty afterwards.
FetchedOnceLoadingStops ==
    /\ [](fetchCount = 1)
    /\ [][fetchPending' => fetchPending]_vars
    /\ [](listLoading <=> fetchPending)
    /\ listLoading ~> ~listLoading
    /\ [][\A isError \in BOOLEAN :
            FetchFails(isError) => listError' # NoError /\ investments' = <<>>]_vars
    /\ []((~fetchPending /\ fetched = <<>> /\ listError # NoError) => investments = <<>>)

\* the select was answered with an error although the user has rows: the
\* loader has stopped, an error is set and the list is empty
FetchFailedListEmpty ==
    /\ ~listLoading
    /\ ~fetchPending
    /\ listError # NoError
    /\ deleteCount = 0
    /\ investments = <<>>
    /\ SelectFrom(OptionalUser(session), table) # {}

\* C27: past the loader exactly one of the totals row and the placeholder
\* row is rendered, the totals row exactly when the list is non-empty and the
\* placeholder exactly when it is empty; when a delete that returned without
\* error takes the only item out of the list, the totals row rendered before
\* it is replaced by the placeholder.
OneOfTotalsAndPlaceholder ==
    /\ [](~LoaderShown =>
            /\ TotalsRendered # PlaceholderRendered
            /\ TotalsRendered <=> investments # <<>>
            /\ PlaceholderRendered <=> investments = <<>>)
    /\ [][(/\ Len(deleteLog') = Len(deleteLog) + 1
           /\ deleteLog'[Len(deleteLog')].ok
           /\ Len(investments) = 1
           /\ investments[1].id = deleteLog'[Len(deleteLog')].id)
          => (/\ TotalsRendered /\ ~PlaceholderRendered
              /\ PlaceholderRendered' /\ ~TotalsRendered')]_vars

\* rows were fetched and deleted one by one without error: the last delete
\* emptied the list and the placeholder is rendered
LastItemDeleted ==
    /\ fetched # <<>>
    /\ deleteLog # <<>>
    /\ deleteLog[Len(deleteLog)].ok
    /\ investments = <<>>
    /\ PlaceholderRendered
    /\ ~TotalsRendered

----------------------------------------------------------------------------
(* Properties of the investments relation *)

\* C17: whatever requests are made, in whatever order, a select returns only
\* rows owned by its caller, every row a request adds to the relation
\* (created, or the new version of a changed row) is owned by its caller, and
\* every row a request takes out of it (deleted, or the old version of a
\* changed row) was owned by its caller; the select and the delete carry no
\* user filter of their own.
OwnRowsOnly ==
    /\ [](reply.op = "select" => \A r \in reply.rows : r.user_id = reply.uid)
    /\ [][\A r \in table' \ table : r.user_id = reply'.uid]_vars
    /\ [][\A r \in table \ table' : r.user_id = reply'.uid]_vars

\* u1 asked to delete a row that u2 owns and the row is still there
ForeignDeleteLeftRow ==
    /\ reply.op = "delete"
    /\ reply.uid = "u1"
    /\ \E r \in table : r.id = reply.id /\ r.user_id = "u2"

\* C28: the unmount of AuthProvider unregisters the listener, it stays
\* unregistered while the provider is unmounted, and no step taken after
\* the unmount, an emitted auth-state-change event included, changes the
\* session or the user of the store.
ListenerGoneAfterTeardown ==
    /\ [](~mounted => ~subscribed)
    /\ [][Teardown => ~subscribed']_vars
    /\ [][~mounted => (session' = session /\ user' = user)]_vars

\* the listener had delivered an event before the unmount; after it the
\* service emitted a sign-in the store does not show
EventAfterTeardownUnheard ==
    /\ ~mounted
    /\ lastEvent # NoEvent
    /\ unheard \in Sessions
    /\ session # unheard
    /\ user # SessionUser(unheard)

============================================================================
